---------------------------- MODULE Spec2Model ----------------------------
(***************************************************************************)
(* The display pipeline of conducteensy: the FrameBuffer slot ring         *)
(* (framebuffer.h), the PagedDisplayDriver page streamer                   *)
(* (page_display_driver.h), the display:: layer with the                   *)
(* GRAPHICS_BEGIN_FRAME / GRAPHICS_END_FRAME macros (display.h), the       *)
(* polling loop of Main.cpp and the ILI9341 sink (ILI9341_Driver.cpp).     *)
(*                                                                         *)
(* size_t fields are 32 bits wide on the target.  A size_t value is held   *)
(* as its two's-complement representative: 0 .. 2^31-1 stand for           *)
(* themselves and -1 stands for 0xFFFFFFFF, -2 for 0xFFFFFFFE, and so on,  *)
(* so that ++ and -- wrap exactly as the 32-bit unsigned field does.       *)
(*                                                                         *)
(* A pointer into frames_ is the byte offset from the start of the array;  *)
(* frames_[s] starts at s * kFrameSize.                                    *)
(***************************************************************************)
EXTENDS Integers, Sequences, FiniteSets, TLC

\* ---------------------------------------------------------------- constants

\* FrameBuffer<SH1106_128x64_Driver::kFrameSize, 2>: the number of slots.
kNumFrames == 2

\* SH1106_128x64_Driver::kNumPages (ILI9341_Driver::kNumPages is the same).
kNumPages == 8

kFrameSize == (128 * 64) \div 8

kPageSize == kFrameSize \div kNumPages

\* The null pointer: no offset into frames_.
nullptr == -1

\* ------------------------------------------------------------------ bounds

\* Frames the producer commits in the display-level specifications.
MaxCommits == 3

\* read() calls in the display-level specifications.
MaxReleases == 4

\* written() calls in the pool-only specification.
MaxPoolCommits == 40

\* written() calls where written() is called in any state.
MaxRawCalls == 14

\* Distinct page contents handed to the sink on its own.
MaxSinkData == 1

Slots == 0 .. (kNumFrames - 1)

VARIABLES
    frames_,          \* FrameBuffer::frames_: slot -> content (0: all bytes zero,
                      \*   n > 0: the picture of the n-th drawing session)
    write_frame_,     \* FrameBuffer::write_frame_
    read_frame_,      \* FrameBuffer::read_frame_
    readable_count_,  \* FrameBuffer::readable_count_ (size_t, see above)
    frame_,           \* PagedDisplayDriver::frame_ (pointer or nullptr)
    page_,            \* PagedDisplayDriver::page_
    frame,            \* the local `frame` of GRAPHICS_BEGIN_FRAME (pointer or nullptr)
    pc,               \* where the single control flow stands
    commits,          \* history: written() calls so far
    releases,         \* history: read() calls so far
    transferred,      \* history: slot -> its committed frame had its last page
                      \*   accepted and has not been released since
    delivered,        \* history: content of the last frame whose last page the
                      \*   sink accepted (0: none yet)
    sent,             \* history: the SendPage calls of the latest
                      \*   display::Update(), in order
    pages,            \* history: the page indices the sink accepted since the
                      \*   latest PagedDisplayDriver::Begin, in order
    acquired,         \* history: GRAPHICS_BEGIN_FRAME runs that got a frame
    op,               \* history: the operation that ran last
    run,             \* history: <<n, c>>: the last n operations were
                      \*   display::Update() calls whose page the sink would
                      \*   accept, the first made with no active frame and a
                      \*   readable slot when readable_count_ was c (n = 0: no
                      \*   such calls are under way)
    probed,           \* history: what writeable(), writeable_frame(),
                      \*   readable() and readable_frame() returned when last
                      \*   called with no written() or read() since (<<>>: no
                      \*   such call)
    w_loaded,         \* written(): <<v>> when ++readable_count_ has loaded v
                      \*   and not yet stored v + 1, else <<>>
    r_loaded,         \* read(): <<v>> when --readable_count_ has loaded v
                      \*   and not yet stored v - 1, else <<>>
    display_initialized,  \* ILI9341_Driver.cpp: display_initialized
    page_buffer,      \* ILI9341_Driver.cpp: page_buffer, page -> content
    page_dirty,       \* ILI9341_Driver.cpp: page_dirty
    tft,              \* the screen: page -> content drawn there by
                      \*   DrawScaledPixel calls (0: background)
    sink_call,        \* history: <<index, data, result>> of the latest
                      \*   ILI9341_Driver::SendPage call (<<>>: none yet)
    flip_mode,        \* ILI9341_Driver.cpp: flip_mode
    pixel,            \* the arguments <<x, y>> of a DrawScaledPixel call
    rect              \* the tft.fillRect(x, y, w, h) call DrawScaledPixel
                      \*   made for pixel (<<>>: not called yet)

display_vars ==
    <<frames_, write_frame_, read_frame_, readable_count_, frame_, page_,
      frame, pc, commits, releases, transferred, delivered, sent, pages,
      acquired, op, run>>

race_vars == <<w_loaded, r_loaded>>

sink_vars == <<display_initialized, page_buffer, page_dirty, tft, sink_call>>

pixel_vars == <<flip_mode, pixel, rect>>

vars == <<display_vars, probed, race_vars, sink_vars, pixel_vars>>

\* ------------------------------------------------------- size_t arithmetic

\* ++x on a 32-bit size_t.
SizeInc(x) == IF x = 2147483647 THEN (-2147483647) - 1 ELSE x + 1

\* --x on a 32-bit size_t: 0 wraps to 0xFFFFFFFF (held as -1).
SizeDec(x) == IF x = (-2147483647) - 1 THEN 2147483647 ELSE x - 1

\* x < n as unsigned, for a constant 0 <= n < 2^31.
SizeLess(x, n) == x >= 0 /\ x < n

\* ---------------------------------------------------------------- pointers

\* frames_[s], decayed to uint8_t *.
FrameAddr(s) == s * kFrameSize

\* The slot a non-null pointer into frames_ points into.
SlotOf(p) == p \div kFrameSize

\* --------------------------------------------------------------- FrameBuffer

\* Init() forgetting to reset readable_count_.
FrameBuffer_Init_keeps_count ==
    /\ frames_' = [s \in Slots |-> 0]
    /\ write_frame_' = 0
    /\ read_frame_' = 0
    /\ UNCHANGED readable_count_

FrameBuffer_Init ==
    /\ frames_' = [s \in Slots |-> 0]
    /\ write_frame_' = 0
    /\ read_frame_' = 0
    /\ readable_count_' = 0

writeable_frame ==
    IF ~SizeLess(readable_count_, kNumFrames) THEN nullptr
    ELSE FrameAddr(write_frame_)

\* writeable() still true with every slot readable.
writeable_when_full == SizeLess(readable_count_, kNumFrames + 1)

writeable == SizeLess(readable_count_, kNumFrames)

\* written() with the advance of write_frame_ left out.
written_keeps_index ==
    /\ write_frame_' = write_frame_
    /\ readable_count_' = SizeInc(readable_count_)
    /\ commits' = commits + 1
    /\ transferred' = [transferred EXCEPT ![write_frame_] = FALSE]

written ==
    /\ write_frame_' = (write_frame_ + 1) % kNumFrames
    /\ readable_count_' = SizeInc(readable_count_)
    /\ commits' = commits + 1
    /\ transferred' = [transferred EXCEPT ![write_frame_] = FALSE]

readable_frame ==
    IF readable_count_ = 0 THEN nullptr
    ELSE FrameAddr(read_frame_)

readable == ~SizeLess(readable_count_, 1)

\* read() with the advance of read_frame_ left out.
read_keeps_index ==
    /\ read_frame_' = read_frame_
    /\ readable_count_' = SizeDec(readable_count_)
    /\ releases' = releases + 1
    /\ transferred' = [transferred EXCEPT ![read_frame_] = FALSE]

\* read() with the decrement of readable_count_ left out.
read_keeps_count ==
    /\ read_frame_' = (read_frame_ + 1) % kNumFrames
    /\ readable_count_' = readable_count_
    /\ releases' = releases + 1
    /\ transferred' = [transferred EXCEPT ![read_frame_] = FALSE]

read ==
    /\ read_frame_' = (read_frame_ + 1) % kNumFrames
    /\ readable_count_' = SizeDec(readable_count_)
    /\ releases' = releases + 1
    /\ transferred' = [transferred EXCEPT ![read_frame_] = FALSE]

\* -------------------------------------------------------- PagedDisplayDriver

PagedDisplayDriver_Init ==
    /\ frame_' = nullptr
    /\ page_' = 0

\* The value PagedDisplayDriver::Flush() returns; display_driver::Flush() has
\* no effect on the state modelled.
PagedDisplayDriver_Flush == frame_ = nullptr

\* Begin() with the reset of page_ left out.
Begin_keeps_page(f) ==
    /\ frame_' = f
    /\ page_' = page_
    /\ pages' = <<>>

Begin(f) ==
    /\ frame_' = f
    /\ page_' = 0
    /\ pages' = <<>>

frame_valid == frame_ # nullptr

\* The call display_driver::SendPage(index, data) and what it returned.
SendPage(index, data, accepted) ==
    [index |-> index, data |-> data, accepted |-> accepted]

\* Update() advancing to the next page whatever SendPage returned.
Update_advances_on_reject(accepted) ==
    IF frame_ # nullptr
    THEN /\ sent' = <<SendPage(page_, frame_, accepted)>>
         /\ page_' = page_ + 1
         /\ frame_' = IF page_ + 1 >= kNumPages THEN nullptr
                      ELSE frame_ + kPageSize
         /\ pages' = Append(pages, page_)
         /\ IF page_ + 1 >= kNumPages
            THEN /\ transferred' =
                        [transferred EXCEPT ![SlotOf(frame_)] = TRUE]
                 /\ delivered' = frames_[SlotOf(frame_)]
            ELSE UNCHANGED <<transferred, delivered>>
    ELSE /\ sent' = <<>>
         /\ UNCHANGED <<frame_, page_, pages, transferred, delivered>>

\* Update() stepping over a page after each accepted one.
Update_skips_page(accepted) ==
    IF frame_ # nullptr
    THEN /\ sent' = <<SendPage(page_, frame_, accepted)>>
         /\ IF accepted
            THEN /\ page_' = page_ + 2
                 /\ frame_' = IF page_ + 2 >= kNumPages THEN nullptr
                              ELSE frame_ + 2 * kPageSize
                 /\ pages' = Append(pages, page_)
                 /\ IF page_ + 2 >= kNumPages
                    THEN /\ transferred' =
                                [transferred EXCEPT ![SlotOf(frame_)] = TRUE]
                         /\ delivered' = frames_[SlotOf(frame_)]
                    ELSE UNCHANGED <<transferred, delivered>>
            ELSE UNCHANGED <<frame_, page_, pages, transferred, delivered>>
    ELSE /\ sent' = <<>>
         /\ UNCHANGED <<frame_, page_, pages, transferred, delivered>>

\* Update() sending the current page and the one after it in one call.
Update_sends_two(accepted) ==
    IF frame_ # nullptr
    THEN /\ sent' = <<SendPage(page_, frame_, accepted),
                      SendPage(page_ + 1, frame_ + kPageSize, accepted)>>
         /\ IF accepted
            THEN /\ page_' = page_ + 2
                 /\ frame_' = IF page_ + 2 >= kNumPages THEN nullptr
                              ELSE frame_ + 2 * kPageSize
                 /\ pages' = pages \o <<page_, page_ + 1>>
                 /\ IF page_ + 2 >= kNumPages
                    THEN /\ transferred' =
                                [transferred EXCEPT ![SlotOf(frame_)] = TRUE]
                         /\ delivered' = frames_[SlotOf(frame_)]
                    ELSE UNCHANGED <<transferred, delivered>>
            ELSE UNCHANGED <<frame_, page_, pages, transferred, delivered>>
    ELSE /\ sent' = <<>>
         /\ UNCHANGED <<frame_, page_, pages, transferred, delivered>>

\* Update() clearing frame_ one page late (page_ > kNumPages).
Update_clears_late(accepted) ==
    IF frame_ # nullptr
    THEN /\ sent' = <<SendPage(page_, frame_, accepted)>>
         /\ IF accepted
            THEN /\ page_' = page_ + 1
                 /\ frame_' = IF page_ + 1 > kNumPages THEN nullptr
                              ELSE frame_ + kPageSize
                 /\ pages' = Append(pages, page_)
                 /\ IF page_ + 1 > kNumPages
                    THEN /\ transferred' =
                                [transferred EXCEPT ![SlotOf(frame_)] = TRUE]
                         /\ delivered' = frames_[SlotOf(frame_)]
                    ELSE UNCHANGED <<transferred, delivered>>
            ELSE UNCHANGED <<frame_, page_, pages, transferred, delivered>>
    ELSE /\ sent' = <<>>
         /\ UNCHANGED <<frame_, page_, pages, transferred, delivered>>

\* Update() clearing frame_ one page early, with the last page unsent.
Update_clears_early(accepted) ==
    IF frame_ # nullptr
    THEN /\ sent' = <<SendPage(page_, frame_, accepted)>>
         /\ IF accepted
            THEN /\ page_' = page_ + 1
                 /\ frame_' = IF page_ + 2 >= kNumPages THEN nullptr
                              ELSE frame_ + kPageSize
                 /\ pages' = Append(pages, page_)
                 /\ UNCHANGED <<transferred, delivered>>
            ELSE UNCHANGED <<frame_, page_, pages, transferred, delivered>>
    ELSE /\ sent' = <<>>
         /\ UNCHANGED <<frame_, page_, pages, transferred, delivered>>

\* Update() never getting past the last page: its acceptance is ignored.
Update_sticks_on_last(accepted) ==
    IF frame_ # nullptr
    THEN /\ sent' = <<SendPage(page_, frame_, accepted)>>
         /\ IF accepted /\ page_ + 1 < kNumPages
            THEN /\ page_' = page_ + 1
                 /\ frame_' = frame_ + kPageSize
                 /\ pages' = Append(pages, page_)
                 /\ UNCHANGED <<transferred, delivered>>
            ELSE UNCHANGED <<frame_, page_, pages, transferred, delivered>>
    ELSE /\ sent' = <<>>
         /\ UNCHANGED <<frame_, page_, pages, transferred, delivered>>

\* PagedDisplayDriver::Update(); `accepted` is what SendPage(page_, frame_)
\* returns.
Update(accepted) ==
    IF frame_ # nullptr
    THEN /\ sent' = <<SendPage(page_, frame_, accepted)>>
         /\ IF accepted
            THEN /\ page_' = page_ + 1
                 /\ frame_' = IF page_ + 1 >= kNumPages THEN nullptr
                              ELSE frame_ + kPageSize
                 /\ pages' = Append(pages, page_)
                 /\ IF page_ + 1 >= kNumPages
                    THEN /\ transferred' =
                                [transferred EXCEPT ![SlotOf(frame_)] = TRUE]
                         /\ delivered' = frames_[SlotOf(frame_)]
                    ELSE UNCHANGED <<transferred, delivered>>
            ELSE UNCHANGED <<frame_, page_, pages, transferred, delivered>>
    ELSE /\ sent' = <<>>
         /\ UNCHANGED <<frame_, page_, pages, transferred, delivered>>

\* ------------------------------------------------------------------ display

display_Init ==
    /\ FrameBuffer_Init
    /\ PagedDisplayDriver_Init

\* display::Flush() calling read() whatever driver.Flush() returns.
display_Flush_always_reads ==
    /\ read
    /\ UNCHANGED <<frames_, write_frame_, frame_, page_, commits, delivered,
                   sent, pages>>

display_Flush ==
    /\ IF PagedDisplayDriver_Flush
       THEN read
       ELSE UNCHANGED <<read_frame_, readable_count_, releases, transferred>>
    /\ UNCHANGED <<frames_, write_frame_, frame_, page_, commits, delivered,
                   sent, pages>>

\* display::Update() beginning a frame without asking readable().
display_Update_begins_blindly(accepted) ==
    /\ IF frame_valid
       THEN Update(accepted)
       ELSE /\ Begin(readable_frame)
            /\ sent' = <<>>
            /\ UNCHANGED <<transferred, delivered>>
    /\ UNCHANGED <<frames_, write_frame_, read_frame_, readable_count_,
                   commits, releases>>

display_Update(accepted) ==
    /\ IF frame_valid
       THEN Update(accepted)
       ELSE /\ IF readable
               THEN Begin(readable_frame)
               ELSE UNCHANGED <<frame_, page_, pages>>
            /\ sent' = <<>>
            /\ UNCHANGED <<transferred, delivered>>
    /\ UNCHANGED <<frames_, write_frame_, read_frame_, readable_count_,
                   commits, releases>>

\* A pass that takes the slot at write_frame_ without asking writeable().
Probe_ignores_full == FrameAddr(write_frame_)

\* One pass of the do { ... } while (!frame && wait) loop of
\* GRAPHICS_BEGIN_FRAME: the value `frame` has after it.
Probe == IF writeable THEN writeable_frame ELSE nullptr

\* if (frame) { graphics.Begin(frame, weegfx::CLEAR_FRAME_ENABLE); ...
\* The drawing surface clears the slot it is handed.
graphics_Begin(f) ==
    frames_' = [frames_ EXCEPT ![SlotOf(f)] = 0]

\* graphics.End(); display::frame_buffer.written(); } -- the end of the block
\* that GRAPHICS_BEGIN_FRAME opened with a non-null frame.
GRAPHICS_END_FRAME ==
    /\ written
    /\ frame' = nullptr
    /\ UNCHANGED <<frames_, read_frame_, frame_, page_, releases, delivered,
                   sent, pages>>

\* ------------------------------------------------- what the history records

\* The page the next SendPage call is for: the current page of the active
\* frame, or the first page of the frame display::Update() is about to begin.
NextPage == IF frame_valid THEN page_ ELSE 0

\* run after a display::Update() call made in the current state.
RunAfterUpdate(accepted) ==
    IF ~accepted THEN <<0, 0>>
    ELSE IF frame_ = nullptr /\ readable THEN <<1, readable_count_>>
    ELSE IF run[1] \in 1 .. (kNumPages - 1) THEN <<run[1] + 1, run[2]>>
    ELSE <<0, 0>>

\* ------------------------------------- display-level operations, any order

\* FrameBuffer, PagedDisplayDriver and the producer after display::Init().
PipelineInit ==
    /\ frames_ = [s \in Slots |-> 0]
    /\ write_frame_ = 0
    /\ read_frame_ = 0
    /\ readable_count_ = 0
    /\ frame_ = nullptr
    /\ page_ = 0
    /\ frame = nullptr
    /\ pc = "idle"
    /\ commits = 0
    /\ releases = 0
    /\ transferred = [s \in Slots |-> FALSE]
    /\ delivered = 0
    /\ sent = <<>>
    /\ pages = <<>>
    /\ acquired = 0
    /\ op = "init"
    /\ run = <<0, 0>>

\* No probe result is on record and no written() or read() is under way.
CallerInit ==
    /\ probed = <<>>
    /\ w_loaded = <<>>
    /\ r_loaded = <<>>

Pages == 0 .. (kNumPages - 1)

\* The statics of ILI9341_Driver.cpp before ILI9341_Driver::Init() has run.
SinkStatic ==
    /\ display_initialized = FALSE
    /\ page_buffer = [i \in Pages |-> 0]
    /\ page_dirty = [i \in Pages |-> FALSE]
    /\ tft = [i \in Pages |-> 0]
    /\ sink_call = <<>>

\* The sink once ILI9341_Driver::Init() has run.
SinkReady ==
    /\ display_initialized = TRUE
    /\ page_buffer = [i \in Pages |-> 0]
    /\ page_dirty = [i \in Pages |-> FALSE]
    /\ tft = [i \in Pages |-> 0]
    /\ sink_call = <<>>

\* No DrawScaledPixel call has been made; flip_mode has its initial value.
PixelIdle ==
    /\ flip_mode = FALSE
    /\ pixel = <<0, 0>>
    /\ rect = <<>>

\* The state display::Init() leaves.
Init ==
    /\ PipelineInit
    /\ CallerInit
    /\ SinkReady
    /\ PixelIdle

\* GRAPHICS_BEGIN_FRAME(wait), up to the end of the first pass of its loop.
BeginFrame(wait) ==
    /\ pc = "idle"
    /\ acquired < MaxCommits
    /\ frame' = Probe
    /\ IF Probe # nullptr
       THEN /\ graphics_Begin(Probe)
            /\ acquired' = acquired + 1
            /\ pc' = "draw"
       ELSE /\ pc' = IF wait THEN "wait" ELSE "idle"
            /\ UNCHANGED <<frames_, acquired>>
    /\ op' = "begin"
    /\ run' = <<0, 0>>
    /\ UNCHANGED <<write_frame_, read_frame_, readable_count_, frame_, page_,
                   commits, releases, transferred, delivered, sent, pages>>
    /\ UNCHANGED <<probed, race_vars, sink_vars, pixel_vars>>

\* A further pass of the loop of GRAPHICS_BEGIN_FRAME(true).
WaitFrame ==
    /\ pc = "wait"
    /\ frame' = Probe
    /\ IF Probe # nullptr
       THEN /\ graphics_Begin(Probe)
            /\ acquired' = acquired + 1
            /\ pc' = "draw"
       ELSE UNCHANGED <<pc, frames_, acquired>>
    /\ op' = "wait"
    /\ run' = <<0, 0>>
    /\ UNCHANGED <<write_frame_, read_frame_, readable_count_, frame_, page_,
                   commits, releases, transferred, delivered, sent, pages>>
    /\ UNCHANGED <<probed, race_vars, sink_vars, pixel_vars>>

\* The drawing calls between the two macros write the picture into the slot.
Draw ==
    /\ pc = "draw"
    /\ frames_' = [frames_ EXCEPT ![SlotOf(frame)] = commits + 1]
    /\ pc' = "end"
    /\ op' = "draw"
    /\ run' = <<0, 0>>
    /\ UNCHANGED <<write_frame_, read_frame_, readable_count_, frame_, page_,
                   frame, commits, releases, transferred, delivered, sent,
                   pages, acquired>>
    /\ UNCHANGED <<probed, race_vars, sink_vars, pixel_vars>>

\* The drawing code leaves the block early (a break or a return between the
\* two macros): graphics.End() and written() are skipped.
EarlyExit ==
    /\ pc \in {"draw", "end"}
    /\ frame' = nullptr
    /\ pc' = "idle"
    /\ op' = "exit"
    /\ run' = <<0, 0>>
    /\ UNCHANGED <<frames_, write_frame_, read_frame_, readable_count_, frame_,
                   page_, commits, releases, transferred, delivered, sent,
                   pages, acquired>>
    /\ UNCHANGED <<probed, race_vars, sink_vars, pixel_vars>>

EndFrame ==
    /\ pc = "end"
    /\ GRAPHICS_END_FRAME
    /\ pc' = "idle"
    /\ op' = "end"
    /\ run' = <<0, 0>>
    /\ UNCHANGED acquired
    /\ UNCHANGED <<probed, race_vars, sink_vars, pixel_vars>>

\* display::Update(), called from the loop or from the drawing code.
PumpUpdate(accepted) ==
    /\ pc \in {"idle", "draw", "end"}
    /\ display_Update(accepted)
    /\ op' = "update"
    /\ run' = RunAfterUpdate(accepted)
    /\ UNCHANGED <<frame, pc, acquired>>
    /\ UNCHANGED <<probed, race_vars, sink_vars, pixel_vars>>

\* display::Flush(), called from the loop or from the drawing code.
PumpFlush ==
    /\ pc \in {"idle", "draw", "end"}
    /\ PagedDisplayDriver_Flush => releases < MaxReleases
    /\ display_Flush
    /\ op' = "flush"
    /\ run' = <<0, 0>>
    /\ UNCHANGED <<frame, pc, acquired>>
    /\ UNCHANGED <<probed, race_vars, sink_vars, pixel_vars>>

Next ==
    \/ \E wait \in BOOLEAN : BeginFrame(wait)
    \/ WaitFrame
    \/ Draw
    \/ EarlyExit
    \/ EndFrame
    \/ \E accepted \in BOOLEAN : PumpUpdate(accepted)
    \/ PumpFlush

Spec == Init /\ [][Next]_vars

\* ------------------------ display-level operations, a sink that never accepts

\* The operations of Spec with SendPage returning false on every call.
StallNext ==
    \/ \E wait \in BOOLEAN : BeginFrame(wait)
    \/ WaitFrame
    \/ Draw
    \/ EndFrame
    \/ PumpUpdate(FALSE)
    \/ PumpFlush

StallSpec == Init /\ [][StallNext]_vars

\* ----------------------------------------------- the ILI9341 sink (Main.cpp)

\* ILI9341_Driver::kFrameSize, kNumPages and kPageSize.
ILI9341_kFrameSize == (128 * 64) \div 8

ILI9341_kNumPages == 8

ILI9341_kPageSize == ILI9341_kFrameSize \div ILI9341_kNumPages

\* What ILI9341_Driver::SendPage(index, data) returns once display::Init()
\* has run (display_initialized is true from then on).
ILI9341_SendPage(index) == ~(index >= kNumPages)

\* ILI9341_Driver::Init(): the screen is filled with the background colour,
\* page_dirty and page_buffer are zeroed, display_initialized is set.
ILI9341_Driver_Init ==
    /\ tft' = [i \in Pages |-> 0]
    /\ page_dirty' = [i \in Pages |-> FALSE]
    /\ page_buffer' = [i \in Pages |-> 0]
    /\ display_initialized' = TRUE

\* SendPage copying and drawing the page before it looks at
\* display_initialized.
ILI9341_Driver_SendPage_stores_first(index, data) ==
    IF index >= kNumPages
    THEN /\ sink_call' = <<index, data, FALSE>>
         /\ UNCHANGED <<display_initialized, page_buffer, page_dirty, tft>>
    ELSE /\ page_buffer' = [page_buffer EXCEPT ![index] = data]
         /\ page_dirty' = [page_dirty EXCEPT ![index] = TRUE]
         /\ tft' = [tft EXCEPT ![index] = data]
         /\ sink_call' = <<index, data, display_initialized>>
         /\ UNCHANGED display_initialized

\* ILI9341_Driver::SendPage(index, data), with the sink's state; data is the
\* content of the kPageSize bytes at the pointer.
ILI9341_Driver_SendPage(index, data) ==
    IF ~display_initialized
    THEN /\ sink_call' = <<index, data, FALSE>>
         /\ UNCHANGED <<display_initialized, page_buffer, page_dirty, tft>>
    ELSE IF index >= kNumPages
    THEN /\ sink_call' = <<index, data, FALSE>>
         /\ UNCHANGED <<display_initialized, page_buffer, page_dirty, tft>>
    ELSE /\ page_buffer' = [page_buffer EXCEPT ![index] = data]
         /\ page_dirty' = [page_dirty EXCEPT ![index] = TRUE]
         /\ tft' = [tft EXCEPT ![index] = data]
         /\ sink_call' = <<index, data, TRUE>>
         /\ UNCHANGED display_initialized

\* --------------------------------------------------- the ILI9341 sink alone

\* Program start: ILI9341_Driver::Init() has not run yet.
SinkInit ==
    /\ PipelineInit
    /\ CallerInit
    /\ SinkStatic
    /\ PixelIdle

SinkInitCall ==
    /\ ILI9341_Driver_Init
    /\ UNCHANGED <<display_vars, probed, race_vars, sink_call, pixel_vars>>

\* A SendPage call with any page index up to one past kNumPages.
SinkSendPage(index, data) ==
    /\ ILI9341_Driver_SendPage(index, data)
    /\ UNCHANGED <<display_vars, probed, race_vars, pixel_vars>>

SinkNext ==
    \/ SinkInitCall
    \/ \E index \in 0 .. (kNumPages + 1), data \in 1 .. MaxSinkData :
           SinkSendPage(index, data)

SinkSpec == SinkInit /\ [][SinkNext]_vars

\* ------------------------------------------------------- Main.cpp's loop()

\* if (now - last_redraw >= REDRAW_INTERVAL_MS) { ... GRAPHICS_BEGIN_FRAME(true)
\* up to the end of the first pass of its loop.
LoopRedraw ==
    /\ pc = "idle"
    /\ commits < MaxCommits
    /\ frame' = Probe
    /\ IF Probe # nullptr
       THEN /\ graphics_Begin(Probe)
            /\ acquired' = acquired + 1
            /\ pc' = "loop_draw"
       ELSE /\ pc' = "loop_wait"
            /\ UNCHANGED <<frames_, acquired>>
    /\ op' = "begin"
    /\ run' = <<0, 0>>
    /\ UNCHANGED <<write_frame_, read_frame_, readable_count_, frame_, page_,
                   commits, releases, transferred, delivered, sent, pages>>
    /\ UNCHANGED <<probed, race_vars, sink_vars, pixel_vars>>

\* A further pass of the loop of GRAPHICS_BEGIN_FRAME(true).
LoopWait ==
    /\ pc = "loop_wait"
    /\ frame' = Probe
    /\ IF Probe # nullptr
       THEN /\ graphics_Begin(Probe)
            /\ acquired' = acquired + 1
            /\ pc' = "loop_draw"
       ELSE UNCHANGED <<pc, frames_, acquired>>
    /\ op' = "wait"
    /\ run' = <<0, 0>>
    /\ UNCHANGED <<write_frame_, read_frame_, readable_count_, frame_, page_,
                   commits, releases, transferred, delivered, sent, pages>>
    /\ UNCHANGED <<probed, race_vars, sink_vars, pixel_vars>>

\* graphics.drawFrame(...) ... graphics.printf(...)
LoopDraw ==
    /\ pc = "loop_draw"
    /\ frames_' = [frames_ EXCEPT ![SlotOf(frame)] = commits + 1]
    /\ pc' = "loop_end"
    /\ op' = "draw"
    /\ run' = <<0, 0>>
    /\ UNCHANGED <<write_frame_, read_frame_, readable_count_, frame_, page_,
                   frame, commits, releases, transferred, delivered, sent,
                   pages, acquired>>
    /\ UNCHANGED <<probed, race_vars, sink_vars, pixel_vars>>

\* GRAPHICS_END_FRAME();
LoopEndFrame ==
    /\ pc = "loop_end"
    /\ GRAPHICS_END_FRAME
    /\ pc' = "loop_update"
    /\ op' = "end"
    /\ run' = <<0, 0>>
    /\ UNCHANGED acquired
    /\ UNCHANGED <<probed, race_vars, sink_vars, pixel_vars>>

\* display::Update(); inside the redraw branch
LoopUpdate ==
    /\ pc = "loop_update"
    /\ display_Update(ILI9341_SendPage(page_))
    /\ pc' = "loop_flush"
    /\ op' = "update"
    /\ run' = RunAfterUpdate(ILI9341_SendPage(NextPage))
    /\ UNCHANGED <<frame, acquired>>
    /\ UNCHANGED <<probed, race_vars, sink_vars, pixel_vars>>

\* display::Flush(); inside the redraw branch
LoopFlush ==
    /\ pc = "loop_flush"
    /\ display_Flush
    /\ pc' = "loop_pump"
    /\ op' = "flush"
    /\ run' = <<0, 0>>
    /\ UNCHANGED <<frame, acquired>>
    /\ UNCHANGED <<probed, race_vars, sink_vars, pixel_vars>>

\* A loop() that calls display::Flush() in iterations without a redraw too.
LoopSkip_flushes ==
    /\ pc = "idle"
    /\ pc' = "loop_flush"
    /\ UNCHANGED <<frames_, write_frame_, read_frame_, readable_count_, frame_,
                   page_, frame, commits, releases, transferred, delivered,
                   sent, pages, acquired, op, run>>
    /\ UNCHANGED <<probed, race_vars, sink_vars, pixel_vars>>

\* The redraw branch is not taken.
LoopSkip ==
    /\ pc = "idle"
    /\ pc' = "loop_pump"
    /\ UNCHANGED <<frames_, write_frame_, read_frame_, readable_count_, frame_,
                   page_, frame, commits, releases, transferred, delivered,
                   sent, pages, acquired, op, run>>
    /\ UNCHANGED <<probed, race_vars, sink_vars, pixel_vars>>

\* display::Update(); at the end of loop(), after which loop() returns.
LoopPump ==
    /\ pc = "loop_pump"
    /\ display_Update(ILI9341_SendPage(page_))
    /\ pc' = "idle"
    /\ op' = "update"
    /\ run' = RunAfterUpdate(ILI9341_SendPage(NextPage))
    /\ UNCHANGED <<frame, acquired>>
    /\ UNCHANGED <<probed, race_vars, sink_vars, pixel_vars>>

LoopNext ==
    \/ LoopRedraw
    \/ LoopWait
    \/ LoopDraw
    \/ LoopEndFrame
    \/ LoopUpdate
    \/ LoopFlush
    \/ LoopSkip
    \/ LoopPump

LoopSpec == Init /\ [][LoopNext]_vars

\* loop() is called again and again, and each statement of it runs.
FairLoopSpec == Init /\ [][LoopNext]_vars /\ WF_vars(LoopNext)

\* ------------------------------------ FrameBuffer alone, legal calls only

\* written(), called only when writeable().
PoolWritten ==
    /\ writeable
    /\ commits < MaxPoolCommits
    /\ written
    /\ UNCHANGED <<frames_, read_frame_, frame_, page_, frame, pc, releases,
                   delivered, sent, pages, acquired, op, run>>
    /\ probed' = <<>>
    /\ UNCHANGED <<race_vars, sink_vars, pixel_vars>>

\* read(), called only when readable().
PoolRead ==
    /\ readable
    /\ read
    /\ UNCHANGED <<frames_, write_frame_, frame_, page_, frame, pc, commits,
                   delivered, sent, pages, acquired, op, run>>
    /\ probed' = <<>>
    /\ UNCHANGED <<race_vars, sink_vars, pixel_vars>>

\* A probe that reserves the slot it reports (write_frame_ moves on).
ProbeEffect_reserves ==
    /\ write_frame_' = (write_frame_ + 1) % kNumFrames
    /\ UNCHANGED <<frames_, read_frame_, readable_count_>>

\* What writeable(), writeable_frame(), readable() and readable_frame() do to
\* the FrameBuffer: none of them assigns a field.
ProbeEffect ==
    UNCHANGED <<frames_, write_frame_, read_frame_, readable_count_>>

\* The four probes, called one after the other.
PoolProbe ==
    /\ probed' = <<writeable, writeable_frame, readable, readable_frame>>
    /\ ProbeEffect
    /\ UNCHANGED <<frame_, page_, frame, pc, commits, releases, transferred,
                   delivered, sent, pages, acquired, op, run>>
    /\ UNCHANGED <<race_vars, sink_vars, pixel_vars>>

PoolNext ==
    \/ PoolWritten
    \/ PoolRead
    \/ PoolProbe

PoolSpec == Init /\ [][PoolNext]_vars

\* ----------------------- FrameBuffer alone, written() called in any state

\* written(), whether or not a slot is writeable.
RawWritten ==
    /\ commits < MaxRawCalls
    /\ written
    /\ UNCHANGED <<frames_, read_frame_, frame_, page_, frame, pc, releases,
                   delivered, sent, pages, acquired, op, run>>
    /\ probed' = <<>>
    /\ UNCHANGED <<race_vars, sink_vars, pixel_vars>>

RawNext ==
    \/ RawWritten
    \/ PoolRead

RawSpec == Init /\ [][RawNext]_vars

\* -------------- FrameBuffer alone, read() in a context that preempts written()

\* written() up to the load of ++readable_count_. It runs in the preempted
\* context, so not while a read() is under way.
WrittenLoad ==
    /\ writeable
    /\ commits < MaxPoolCommits
    /\ w_loaded = <<>>
    /\ r_loaded = <<>>
    /\ write_frame_' = (write_frame_ + 1) % kNumFrames
    /\ w_loaded' = <<readable_count_>>
    /\ UNCHANGED <<frames_, read_frame_, readable_count_, frame_, page_, frame,
                   pc, commits, releases, transferred, delivered, sent, pages,
                   acquired, op, run>>
    /\ UNCHANGED <<probed, r_loaded, sink_vars, pixel_vars>>

\* The store of ++readable_count_, which ends written().
WrittenStore ==
    /\ w_loaded # <<>>
    /\ r_loaded = <<>>
    /\ readable_count_' = SizeInc(w_loaded[1])
    /\ w_loaded' = <<>>
    /\ commits' = commits + 1
    /\ UNCHANGED <<frames_, write_frame_, read_frame_, frame_, page_, frame,
                   pc, releases, transferred, delivered, sent, pages,
                   acquired, op, run>>
    /\ UNCHANGED <<probed, r_loaded, sink_vars, pixel_vars>>

\* read() up to the load of --readable_count_. It runs in the preempting
\* context, so at any point of a written().
ReadLoad ==
    /\ readable
    /\ r_loaded = <<>>
    /\ read_frame_' = (read_frame_ + 1) % kNumFrames
    /\ r_loaded' = <<readable_count_>>
    /\ UNCHANGED <<frames_, write_frame_, readable_count_, frame_, page_,
                   frame, pc, commits, releases, transferred, delivered, sent,
                   pages, acquired, op, run>>
    /\ UNCHANGED <<probed, w_loaded, sink_vars, pixel_vars>>

\* The store of --readable_count_, which ends read().
ReadStore ==
    /\ r_loaded # <<>>
    /\ readable_count_' = SizeDec(r_loaded[1])
    /\ r_loaded' = <<>>
    /\ releases' = releases + 1
    /\ UNCHANGED <<frames_, write_frame_, read_frame_, frame_, page_, frame,
                   pc, commits, transferred, delivered, sent, pages, acquired,
                   op, run>>
    /\ UNCHANGED <<probed, w_loaded, sink_vars, pixel_vars>>

RaceNext ==
    \/ WrittenLoad
    \/ WrittenStore
    \/ ReadLoad
    \/ ReadStore

RaceSpec == Init /\ [][RaceNext]_vars

\* ------------------------------------------ DrawScaledPixel, the 2x scaling

DISPLAY_SCALE == 2

kNativeWidth == 320

kNativeHeight == 240

kSourceWidth == 128

kSourceHeight == 64

DISPLAY_OFFSET_X == (kNativeWidth - kSourceWidth * DISPLAY_SCALE) \div 2

DISPLAY_OFFSET_Y == (kNativeHeight - kSourceHeight * DISPLAY_SCALE) \div 2

\* DrawScaledPixel mirroring about kSourceWidth and kSourceHeight instead of
\* the last column and row.
DrawScaledPixel_mirrors_past_edge(x, y) ==
    LET fx == IF flip_mode THEN kSourceWidth - x ELSE x
        fy == IF flip_mode THEN kSourceHeight - y ELSE y
        screen_x == DISPLAY_OFFSET_X + fx * DISPLAY_SCALE
        screen_y == DISPLAY_OFFSET_Y + fy * DISPLAY_SCALE
    IN  rect' = <<screen_x, screen_y, DISPLAY_SCALE, DISPLAY_SCALE>>

\* ILI9341_Driver::DrawScaledPixel(x, y, on): the tft.fillRect call it makes
\* (the colour is left out).
DrawScaledPixel(x, y) ==
    LET fx == IF flip_mode THEN kSourceWidth - 1 - x ELSE x
        fy == IF flip_mode THEN kSourceHeight - 1 - y ELSE y
        screen_x == DISPLAY_OFFSET_X + fx * DISPLAY_SCALE
        screen_y == DISPLAY_OFFSET_Y + fy * DISPLAY_SCALE
    IN  rect' = <<screen_x, screen_y, DISPLAY_SCALE, DISPLAY_SCALE>>

\* Any source pixel is about to be drawn.
PixelInit ==
    /\ PipelineInit
    /\ CallerInit
    /\ SinkReady
    /\ flip_mode = FALSE
    /\ pixel \in (0 .. (kSourceWidth - 1)) \X (0 .. (kSourceHeight - 1))
    /\ rect = <<>>

\* ILI9341_Driver::SetFlipMode(flip180), as far as DrawScaledPixel sees it.
SetFlipMode(flip180) ==
    /\ rect = <<>>
    /\ flip_mode' = flip180
    /\ UNCHANGED <<display_vars, probed, race_vars, sink_vars, pixel, rect>>

PixelDraw ==
    /\ rect = <<>>
    /\ DrawScaledPixel(pixel[1], pixel[2])
    /\ UNCHANGED <<display_vars, probed, race_vars, sink_vars, flip_mode,
                   pixel>>

PixelNext ==
    \/ \E flip180 \in BOOLEAN : SetFlipMode(flip180)
    \/ PixelDraw

PixelSpec == PixelInit /\ [][PixelNext]_vars

\* ------------------------------------------------- display::Init() called again

\* display::Init() called when the pipeline is in use: frame_buffer.Init() and
\* driver.Init() (display.cpp instantiates both objects; the display driver's
\* own Init() configures the panel and keeps no state of the pipeline).
Reinit ==
    /\ pc \in {"idle", "draw", "end"}
    /\ display_Init
    /\ transferred' = [s \in Slots |-> FALSE]
    /\ sent' = <<>>
    /\ pages' = <<>>
    /\ op' = "init"
    /\ run' = <<0, 0>>
    /\ UNCHANGED <<frame, pc, commits, releases, delivered, acquired>>
    /\ UNCHANGED <<probed, race_vars, sink_vars, pixel_vars>>

ReinitNext ==
    \/ Next
    \/ Reinit

ReinitSpec == Init /\ [][ReinitNext]_vars

\* --------------------------------------------------------- transfer progress

\* The pipeline driven by a caller that never spins in GRAPHICS_BEGIN_FRAME,
\* so that display::Update() can always be called again.
ProgressNext ==
    \/ BeginFrame(FALSE)
    \/ Draw
    \/ EarlyExit
    \/ EndFrame
    \/ \E accepted \in BOOLEAN : PumpUpdate(accepted)
    \/ PumpFlush

\* display::Update() keeps being called and the sink does not reject for ever.
ProgressSpec == Init /\ [][ProgressNext]_vars /\ WF_vars(PumpUpdate(TRUE))

\* ---------------------------------------------------------------- properties

\* The step in which the driver's active frame goes from a frame to none:
\* the last page of the frame was accepted.
Completion == frame_ # nullptr /\ frame_' = nullptr

\* The step in which PagedDisplayDriver::Begin makes a frame active.
BeginStep == frame_ = nullptr /\ frame_' # nullptr

\* The step in which FrameBuffer::read() runs.
ReadStep == releases' = releases + 1

\* C1: mutual exclusion -- in no reachable state is the slot the producer
\* holds (acquired by GRAPHICS_BEGIN_FRAME, not yet committed by written())
\* the slot the driver's active frame pointer frame_ points into.
MutualExclusion ==
    (frame # nullptr /\ frame_ # nullptr) => SlotOf(frame) # SlotOf(frame_)

\* C2: FIFO order -- every frame begun for transfer, and every frame whose
\* last page the sink accepts, is the next committed frame after the last one
\* delivered, and every committed frame released is the next one in commit
\* order: no committed frame is overtaken, skipped or sent again.
FifoOrder ==
    [][ /\ BeginStep => frames_[SlotOf(frame_')] = delivered + 1
        /\ Completion => frames_[SlotOf(frame_)] = delivered + 1
        /\ (ReadStep /\ readable) => frames_[read_frame_] = releases + 1
      ]_vars

\* C3: a slot is released (read(), from display::Flush()) only after all
\* kNumPages pages of the frame at read_frame_ were accepted since it was
\* committed, and only once per such drain.
ReleaseOnlyAfterDrain ==
    [][ReadStep => transferred[read_frame_]]_vars

\* C4: atomic release on completion -- there is no reachable state in which
\* the driver has no active frame, the frame at read_frame_ has been fully
\* transferred, and it is still counted in readable_count_.
AtomicRelease ==
    ~(frame_ = nullptr /\ transferred[read_frame_] /\ readable)

\* C5: completion trigger -- the step that accepts the last page of a frame
\* leaves readable_count_ exactly one lower, and no frame is begun again after
\* its last page was accepted.
CompletionTrigger ==
    [][ /\ Completion => readable_count_' = readable_count_ - 1
        /\ BeginStep => ~transferred[SlotOf(frame_')]
      ]_vars

\* C6: cooperative deadlock avoidance -- GRAPHICS_BEGIN_FRAME(true) that finds
\* the pool full keeps the transfer going while it waits, so with a sink that
\* accepts every page the wait ends with a slot acquired.
WaitTerminates ==
    (pc = "loop_wait") ~> (pc = "loop_draw")

\* C7: loop() never blocks -- the state in which a redraw tick of loop() has
\* found the pool full, and waits in GRAPHICS_BEGIN_FRAME(true), is
\* unreachable.
LoopNeverBlocks ==
    ~(pc = "loop_wait" /\ ~writeable)

\* C8: the backlog drains without the producer -- if from some point on
\* loop() takes no redraw tick and only pumps display::Update(), then
\* readable_count_ eventually reaches 0 and stays there.
BacklogDrains ==
    (<>[](pc \in {"idle", "loop_pump"})) => <>[](readable_count_ = 0)

\* C9: conservation -- after any legal sequence of k written() calls and m
\* read() calls from FrameBuffer::Init(), readable_count_ equals k - m, and it
\* is within 0..N in every state on the way.
Conservation ==
    /\ readable_count_ = commits - releases
    /\ readable_count_ \in 0 .. kNumFrames

\* C9's case: several commits and releases have happened and a frame is queued.
ConservationWitness ==
    commits = 5 /\ releases = 4 /\ readable_count_ = 1

\* C10: across every sequence of the display-level operations
\* readable_count_ stays within 0..N; display::Flush() with nothing readable
\* does not take it below 0.
CountInRange ==
    readable_count_ \in 0 .. kNumFrames


\* C11: a display::Update() that calls SendPage passes it the current page
\* index and data pointer and leaves the pool alone; if the sink rejects the
\* page, page_ and frame_ stay as they were (so the next call repeats the same
\* SendPage call), and if it accepts, page_ advances by exactly one.
IdempotentRetry ==
    [][(op' = "update" /\ sent' # <<>>) =>
          /\ sent'[1].index = page_
          /\ sent'[1].data = frame_
          /\ UNCHANGED <<frames_, write_frame_, read_frame_, readable_count_>>
          /\ IF sent'[1].accepted
             THEN page_' = page_ + 1
             ELSE UNCHANGED <<page_, frame_>>]_vars

\* The sink has just rejected page 3 of a frame, and page 3 is still current.
IdempotentRetryWitness ==
    /\ op = "update"
    /\ sent # <<>>
    /\ ~sent[1].accepted
    /\ sent[1].index = 3
    /\ page_ = 3
    /\ frame_ = sent[1].data

\* The page indices 0, 1, ..., n - 1 in order.
FirstPages(n) == [i \in 1 .. n |-> i - 1]

\* C12: the page indices the sink accepted for a frame are 0, 1, 2, ... in
\* ascending order with none skipped and none twice, they are all of
\* 0 .. kNumPages - 1 when the transfer completes, and while a frame is active
\* no step begins a new frame (the accepted pages are never reset, only
\* extended by the current page).
PageOrdering ==
    /\ [](pages = FirstPages(Len(pages)) /\ Len(pages) <= kNumPages)
    /\ [][Completion => pages' = FirstPages(kNumPages)]_vars
    /\ [][frame_ # nullptr =>
             \/ pages' = pages /\ page_' = page_
             \/ pages' = Append(pages, page_) /\ page_' = page_ + 1]_vars

\* A transfer has just completed, all pages accepted in order.
PageOrderingWitness ==
    /\ op = "update"
    /\ frame_ = nullptr
    /\ sent # <<>>
    /\ sent[1].accepted
    /\ sent[1].index = kNumPages - 1
    /\ pages = <<0, 1, 2, 3, 4, 5, 6, 7>>

\* C13: one display::Update() call (and so one PagedDisplayDriver::Update())
\* calls SendPage at most once and moves the transfer on by at most one page
\* of kPageSize bytes.
BoundedWork ==
    [][op' = "update" =>
          /\ Len(sent') <= 1
          /\ page_' <= page_ + 1
          /\ (frame_ # nullptr /\ frame_' # nullptr) =>
                 frame_' \in {frame_, frame_ + kPageSize}]_vars

\* A display::Update() has just sent one page, which the sink accepted.
BoundedWorkWitness ==
    /\ op = "update"
    /\ Len(sent) = 1
    /\ sent[1].accepted
    /\ page_ = sent[1].index + 1
    /\ frame_ = sent[1].data + kPageSize

\* C14 as stated: in every reachable state frame_ is non-null if and only if
\* page_ < kNumPages.
EngineIff == (frame_ # nullptr) <=> (page_ < kNumPages)

\* C14, amended: in every reachable state, a non-null frame_ has
\* page_ < kNumPages, and with frame_ null page_ is 0 (no frame begun since
\* Init) or kNumPages (the last frame begun was transferred completely).
EngineState ==
    /\ frame_ # nullptr => page_ \in 0 .. (kNumPages - 1)
    /\ frame_ = nullptr => page_ \in {0, kNumPages}

\* The last page of a frame is about to be sent.
EngineStateWitness ==
    /\ frame_ # nullptr
    /\ page_ = kNumPages - 1
    /\ Len(pages) = kNumPages - 1

DrainInNumPagesSteps ==
    run[1] = kNumPages =>
        /\ pages = FirstPages(kNumPages)
        /\ frame_ = nullptr
        /\ readable_count_ = SizeDec(run[2])

\* C17: a display::Update() call made with no active frame and
\* readable_count_ = 0 calls SendPage not at all and leaves frame_, page_,
\* write_frame_, read_frame_ and readable_count_ (and the slot contents) as
\* they were.
IdleStepNoOp ==
    [][(op' = "update" /\ frame_ = nullptr /\ readable_count_ = 0) =>
          /\ sent' = <<>>
          /\ UNCHANGED <<frame_, page_, write_frame_, read_frame_,
                         readable_count_, frames_>>]_vars

\* display::Update() has just run on an engine left idle by a complete
\* transfer, with the pool empty.
IdleStepNoOpWitness ==
    /\ op = "update"
    /\ sent = <<>>
    /\ frame_ = nullptr
    /\ page_ = kNumPages
    /\ readable_count_ = 0
    /\ commits = releases
    /\ commits > 0

\* C18: every GRAPHICS_BEGIN_FRAME that got a frame is matched by exactly one
\* written() call, on every way out of the block between the macros: outside
\* a block the two counts are equal, inside one the block's own written() is
\* the only one outstanding; and no written() is called without a frame.
AcquireCommitMatch ==
    /\ commits = acquired -
           (IF pc \in {"draw", "end", "loop_draw", "loop_end"} THEN 1 ELSE 0)
    /\ pc \in {"end", "loop_end"} => frame # nullptr

\* C19: a written() call made when no slot is writeable (so without a
\* successful acquisition before it) leaves write_frame_ and readable_count_
\* as they were, and readable_count_ never exceeds kNumFrames.
WrittenFailsFast ==
    /\ [][(commits' = commits + 1 /\ ~writeable) =>
             UNCHANGED <<write_frame_, readable_count_>>]_vars
    /\ [](readable_count_ \in 0 .. kNumFrames)

\* C20: in every state writeable_frame() is the buffer at write_frame_ if
\* readable_count_ < kNumFrames and null otherwise, readable_frame() is the
\* buffer at read_frame_ if readable_count_ > 0 and null otherwise (both
\* comparisons unsigned), writeable() is true exactly when writeable_frame()
\* is non-null and readable() exactly when readable_frame() is non-null.
AccessDenial ==
    /\ writeable_frame = IF readable_count_ \in 0 .. (kNumFrames - 1)
                         THEN write_frame_ * kFrameSize ELSE nullptr
    /\ readable_frame = IF readable_count_ # 0
                        THEN read_frame_ * kFrameSize ELSE nullptr
    /\ writeable <=> writeable_frame # nullptr
    /\ readable <=> readable_frame # nullptr
    /\ write_frame_ \in Slots
    /\ read_frame_ \in Slots

\* Both slots are committed: write access is denied, the oldest is readable.
AccessDenialWitness ==
    /\ readable_count_ = kNumFrames
    /\ commits = releases + kNumFrames
    /\ ~writeable
    /\ writeable_frame = nullptr
    /\ readable
    /\ readable_frame = FrameAddr(read_frame_)

\* C21: writeable(), writeable_frame(), readable() and readable_frame() leave
\* write_frame_, read_frame_ and readable_count_ unchanged, so as long as no
\* written() or read() has come between, calling them again returns what they
\* returned before (the same answers and the same slots).
ProbeIdempotent ==
    /\ [][probed' # <<>> =>
             UNCHANGED <<write_frame_, read_frame_, readable_count_>>]_vars
    /\ [](probed # <<>> =>
             probed = <<writeable, writeable_frame, readable, readable_frame>>)

\* The probes have run on a pool with one readable and one writable slot.
ProbeIdempotentWitness ==
    /\ probed = <<TRUE, FrameAddr(write_frame_), TRUE, FrameAddr(read_frame_)>>
    /\ readable_count_ = 1
    /\ commits >= 2

\* C22: written() sets write_frame_ to (write_frame_ + 1) mod N and adds one
\* to readable_count_, leaving read_frame_ alone; read() sets read_frame_ to
\* (read_frame_ + 1) mod N and takes one from readable_count_, leaving
\* write_frame_ alone (the count as a 32-bit unsigned number, so on its
\* representative); neither changes the bytes of any slot.
CommitReleaseEffect ==
    [][/\ commits' = commits + 1 =>
              /\ write_frame_' = (write_frame_ + 1) % kNumFrames
              /\ readable_count_' = readable_count_ + 1
              /\ UNCHANGED <<read_frame_, frames_>>
       /\ releases' = releases + 1 =>
              /\ read_frame_' = (read_frame_ + 1) % kNumFrames
              /\ readable_count_' = readable_count_ - 1
              /\ UNCHANGED <<write_frame_, frames_>>]_vars

\* Two frames were committed and the first has just been released.
CommitReleaseEffectWitness ==
    /\ op = "flush"
    /\ commits = 2
    /\ releases = 1
    /\ write_frame_ = 0
    /\ read_frame_ = 1
    /\ readable_count_ = 1
    /\ frames_[1] # 0

\* C23: with SendPage returning false on every call, once a frame is active
\* frame_, page_ and read_frame_ never change again; at most kNumFrames frames
\* are ever committed, and once they are, every GRAPHICS_BEGIN_FRAME(false) is
\* dropped; readable_count_ stays within 0 .. kNumFrames and write_frame_ stays
\* readable_count_ slots ahead of read_frame_.
SinkStall ==
    /\ [][frame_ # nullptr => UNCHANGED <<frame_, page_, read_frame_>>]_vars
    /\ [](commits <= kNumFrames)
    /\ [][(commits = kNumFrames /\ BeginFrame(FALSE)) =>
             (frame' = nullptr /\ pc' = "idle")]_vars
    /\ [](readable_count_ \in 0 .. kNumFrames)
    /\ [](write_frame_ = (read_frame_ + readable_count_) % kNumFrames)

\* C24: with written() in one context and read() in a context that preempts
\* it, ++readable_count_ and --readable_count_ each a load followed by a
\* store, readable_count_ equals commits minus releases whenever no call is
\* under way: no increment and no decrement is lost.
RaceConservation ==
    (w_loaded = <<>> /\ r_loaded = <<>>) =>
        readable_count_ = commits - releases

\* C25: kPageSize * kNumPages is the slot size kFrameSize, with the constants
\* of the SH1106 driver and with those of the ILI9341 driver, and every
\* SendPage call is for a page index below kNumPages with the data pointer at
\* slot base + index * kPageSize, so that the kPageSize bytes it hands over
\* lie inside one slot.
PageGeometry ==
    /\ kPageSize * kNumPages = kFrameSize
    /\ ILI9341_kPageSize * ILI9341_kNumPages = ILI9341_kFrameSize
    /\ ILI9341_kFrameSize = kFrameSize
    /\ ILI9341_kNumPages = kNumPages
    /\ \A i \in 1 .. Len(sent) :
           /\ sent[i].index \in 0 .. (kNumPages - 1)
           /\ \E s \in Slots :
                  /\ sent[i].data = FrameAddr(s) + sent[i].index * kPageSize
                  /\ sent[i].data >= FrameAddr(s)
                  /\ sent[i].data + kPageSize <= FrameAddr(s) + kFrameSize

\* The last page of the second slot has just been offered to the sink.
PageGeometryWitness ==
    /\ op = "update"
    /\ sent # <<>>
    /\ sent[1].index = kNumPages - 1
    /\ sent[1].data = FrameAddr(1) + (kNumPages - 1) * kPageSize

\* C26: ILI9341_Driver::SendPage returns false exactly when the display is
\* not initialized or index >= kNumPages, and then page_buffer, page_dirty and
\* the screen are as before (so the call can be repeated); otherwise it stores
\* the page in page_buffer[index], sets page_dirty[index] and returns true.
SinkRetrySafety ==
    [][sink_call' # sink_call =>
          /\ sink_call'[3] =
                 (display_initialized /\ sink_call'[1] < kNumPages)
          /\ UNCHANGED display_initialized
          /\ IF sink_call'[3]
             THEN /\ page_buffer' =
                         [page_buffer EXCEPT ![sink_call'[1]] = sink_call'[2]]
                  /\ page_dirty' =
                         [page_dirty EXCEPT ![sink_call'[1]] = TRUE]
             ELSE UNCHANGED <<page_buffer, page_dirty, tft>>]_vars

\* The initialized sink holds a page and has just refused index kNumPages.
SinkRetrySafetyWitness ==
    /\ display_initialized
    /\ sink_call = <<kNumPages, 1, FALSE>>
    /\ page_buffer[0] = 1
    /\ page_dirty[0]

\* The screen points a fillRect(x, y, w, h) call covers.
Block(r) ==
    {<<r[1] + dx, r[2] + dy>> : dx \in 0 .. (r[3] - 1), dy \in 0 .. (r[4] - 1)}

\* The source pixel whose block a point of the content rectangle belongs to.
SourceOf(p) ==
    LET cx == (p[1] - DISPLAY_OFFSET_X) \div DISPLAY_SCALE
        cy == (p[2] - DISPLAY_OFFSET_Y) \div DISPLAY_SCALE
    IN  IF flip_mode THEN <<kSourceWidth - 1 - cx, kSourceHeight - 1 - cy>>
        ELSE <<cx, cy>>

PublishedOnly ==
    frame_ # nullptr =>
        /\ SlotOf(frame_) = read_frame_
        /\ readable_count_ \in 1 .. kNumFrames
        /\ commits - releases >= 1

\* C29: in every state reached from FrameBuffer::Init() by legal calls,
\* write_frame_ and read_frame_ are within 0 .. N - 1 and write_frame_ is
\* (read_frame_ + readable_count_) mod N; so the writable slot and the
\* readable slot differ whenever 0 < readable_count_ < N.
RingConsistency ==
    /\ write_frame_ \in 0 .. (kNumFrames - 1)
    /\ read_frame_ \in 0 .. (kNumFrames - 1)
    /\ write_frame_ = (read_frame_ + readable_count_) % kNumFrames
    /\ (0 < readable_count_ /\ readable_count_ < kNumFrames) =>
           /\ writeable_frame # nullptr
           /\ readable_frame # nullptr
           /\ writeable_frame # readable_frame

\* After the ring has wrapped, one slot is readable and the other writable.
RingConsistencyWitness ==
    /\ commits >= kNumFrames + 1
    /\ readable_count_ = 1
    /\ write_frame_ = 0
    /\ read_frame_ = 1
    /\ probed = <<>>

\* C30: display::Flush() called while the driver has an active frame
\* (frame_ non-null, whether no page or some pages of it were accepted) does
\* not call frame_buffer.read() and leaves write_frame_, read_frame_,
\* readable_count_, frame_ and page_ as they were.
NoReleaseMidTransfer ==
    [][(op' = "flush" /\ frame_ # nullptr) =>
          UNCHANGED <<write_frame_, read_frame_, readable_count_, frame_,
                      page_, releases>>]_vars

\* display::Flush() has just run with page 3 of a frame current.
NoReleaseMidTransferWitness ==
    /\ op = "flush"
    /\ frame_ # nullptr
    /\ page_ = 3
    /\ pages = <<0, 1, 2>>
    /\ readable_count_ = commits - releases

\* C31: in Main.cpp's loop() display::Flush() is reached only straight after
\* the GRAPHICS_END_FRAME() and display::Update() of a redraw tick, where at
\* least the frame just committed is readable; so no read() is ever executed
\* with readable_count_ = 0, and the count never leaves 0 .. kNumFrames.
LoopFlushGuarded ==
    /\ [](pc = "loop_update" => op = "end")
    /\ [](pc = "loop_flush" =>
             (op = "update" /\ readable_count_ \in 1 .. kNumFrames))
    /\ [][ReadStep =>
             (pc = "loop_flush" /\ readable_count_ >= 1
                  /\ readable_count_' >= 0)]_vars

\* loop() has just released a frame in a redraw tick.
LoopFlushGuardedWitness ==
    /\ op = "flush"
    /\ pc = "loop_pump"
    /\ releases = 1
    /\ commits = 2
    /\ readable_count_ = 1

\* C32: in Main.cpp's loop(), whenever read() is executed the display::Update()
\* just before it had the last page of the frame at read_frame_ accepted, all
\* pages 0 .. kNumPages - 1 of that frame having been accepted in order since
\* it was committed.
LoopReleasesDrained ==
    [][ReadStep =>
          /\ op = "update"
          /\ Len(sent) = 1
          /\ sent[1].accepted
          /\ sent[1].index = kNumPages - 1
          /\ SlotOf(sent[1].data) = read_frame_
          /\ pages = FirstPages(kNumPages)
          /\ transferred[read_frame_]]_vars

\* loop() has released the first frame, which the sink had received whole.
LoopReleasesDrainedWitness ==
    /\ op = "flush"
    /\ releases = 1
    /\ read_frame_ = 1
    /\ delivered = 1
    /\ pages = FirstPages(kNumPages)
    /\ frame_ = nullptr

\* C33: display::Init() establishes the empty state from any prior state:
\* write_frame_ = read_frame_ = 0, readable_count_ = 0, every slot zero, no
\* active frame and page_ = 0; in the state it leaves writeable() is true and
\* readable() is false, and a display::Update() called next sends nothing and
\* changes nothing of the pipeline.
InitEstablishesEmpty ==
    /\ [][op' = "init" =>
            /\ write_frame_' = 0
            /\ read_frame_' = 0
            /\ readable_count_' = 0
            /\ frames_' = [s \in Slots |-> 0]
            /\ frame_' = nullptr
            /\ page_' = 0]_vars
    /\ [](op = "init" => (writeable /\ ~readable /\ ~frame_valid))
    /\ [][(op = "init" /\ op' = "update") =>
            /\ sent' = <<>>
            /\ UNCHANGED <<frames_, write_frame_, read_frame_,
                           readable_count_, frame_, page_>>]_vars

\* display::Init() has been called on a full pool (two frames committed, none
\* released) and has emptied it.
InitEstablishesEmptyWitness ==
    /\ op = "init"
    /\ commits = 2
    /\ releases = 0
    /\ delivered = 0
    /\ readable_count_ = 0
    /\ frame_ = nullptr

\* C34: transfer progress -- when display::Update() keeps being called and
\* the sink does not reject for ever, every frame begun by
\* PagedDisplayDriver::Begin eventually completes (frame_ becomes nullptr), and
\* the completing step is exactly the kNumPages-th accepted SendPage since
\* Begin: a frame still active has had fewer than kNumPages pages accepted.
TransferProgress ==
    /\ (frame_ # nullptr) ~> (frame_ = nullptr)
    /\ [][Completion =>
            /\ Len(sent') = 1
            /\ sent'[1].accepted
            /\ pages' = FirstPages(kNumPages)]_vars
    /\ [](frame_ # nullptr => Len(pages) < kNumPages)

\* The second frame committed has been transferred to its last page.
TransferProgressWitness ==
    /\ op = "update"
    /\ frame_ = nullptr
    /\ delivered = 2
    /\ Len(pages) = kNumPages
    /\ sent # <<>>
    /\ sent[1].accepted
    /\ sent[1].index = kNumPages - 1
=============================================================================
